---- MODULE Spec2Model ----
(***************************************************************************)
(* Model of the provider clients of ai_client.py: the streaming decoder of *)
(* ClaudeClient.create_stream, the blocking ClaudeClient.create_response,  *)
(* the OpenAIClient counterparts and the message translator                *)
(* ClaudeClient._convert_messages_to_claude_format, and of the provider    *)
(* registry get_ai_client / get_available_models with its instance cache.  *)
(*                                                                         *)
(* A text is a sequence of tokens; the token NL is a newline character,    *)
(* every other token is a run of non-whitespace characters.                *)
(***************************************************************************)
EXTENDS Integers, Sequences, FiniteSets, TLC

\* Bounds of the exploration.
MaxEvents == 5
MaxScript == 4
MaxMsgs == 3

\* Calls made on the registry in one exploration.
MaxCalls == 3

\* Retries the tests expect around one request (initial attempt + 3 retries).
MaxRetries == 3

VARIABLES
  mode,                  \* "stream" | "response" | "convert" | "registry" |
                         \* "web_search_tool": the entry point
  provider,              \* "claude" | "openai": the client the call is made on
  messages,              \* the caller's message list
  script,                \* outcome of each successive transport invocation
  pc,                    \* "start" | "streaming" | "done"
  calls,                 \* number of transport invocations (messages.create), or
                         \* of calls made on the application's file functions
  request,               \* payload of the last transport invocation
  events,                \* events the transport has delivered so far
  out,                   \* fragments yielded to the consumer, in order
  thinking_content,      \* create_stream local
  text_content,          \* create_stream local
  current_content_type,  \* create_stream local
  claude_messages,       \* value returned by _convert_messages_to_claude_format
  result,                \* value returned by create_response / create_web_search_tool
  waited,                \* total time slept between attempts
  transport_error,       \* text of the error the transport raised, if any
  raised,                \* TRUE when an exception escaped to the caller
  options,               \* keyword options the caller passes to the entry point
  api_keys,              \* providers whose API key is set in os.environ
  client_instances,      \* the module-level cache: provider tag -> client
  constructions,         \* clients constructed so far, in order
  callers,               \* per thread: position and locals of its registry call
  log,                   \* registry calls that have returned or raised, in order
  files,                 \* paths that exist on disk (saved chats, temporary files)
  uploaded_files,        \* st.session_state.uploaded_files
  pending_files,         \* st.session_state.pending_files
  attached,              \* file references attached so far, in order
  prepared,              \* contents prepare_message_content has returned, in order
  returned               \* what the last application call returned or reported

clientVars == <<mode, provider, messages, script, pc, calls, request, events, out,
                thinking_content, text_content, current_content_type,
                claude_messages, result, waited, transport_error, raised,
                options>>
regVars == <<api_keys, client_instances, constructions, callers, log>>
appVars == <<files, uploaded_files, pending_files, attached, prepared, returned>>
vars == <<clientVars, regVars, appVars>>

----------------------------------------------------------------------------
\* Texts

NL == "NL"
EmptyText == << >>

\* str.startswith('\n')
StartsWithNL(s) == Len(s) > 0 /\ s[1] = NL

\* "\n🧠 **Claude is thinking:**\n\n"
ThinkingHeader == <<NL, "**Claude is thinking:**", NL, NL>>

\* "\n\n💬 **Claude's response:**\n\n"
ResponseHeader == <<NL, NL, "**Claude's response:**", NL, NL>>

\* "\n\n---\n"
ThinkingSeparator == <<NL, NL, "---", NL>>

\* f"Error: {e}"
FormatError(e) == <<"Error:">> \o e

RECURSIVE LStrip(_)
LStrip(s) == IF s # << >> /\ Head(s) = NL THEN LStrip(Tail(s)) ELSE s

RECURSIVE RStrip(_)
RStrip(s) ==
  IF s # << >> /\ s[Len(s)] = NL THEN RStrip(SubSeq(s, 1, Len(s) - 1)) ELSE s

\* str.strip()
Strip(s) == RStrip(LStrip(s))

----------------------------------------------------------------------------
\* Transport: errors, stream events and blocking responses

\* Error texts str(e) the transport may raise.
OverloadedText == <<"overloaded_error">>
RateLimitText  == <<"rate_limit">>
AuthText       == <<"401", "authentication">>
WebSearchText  == <<"web_search", "unavailable">>
GenericText    == <<"Something", "went", "wrong">>
MixedText      == <<"rate_limit", "overloaded_error">>

ErrTexts == {OverloadedText, RateLimitText, AuthText, WebSearchText,
             GenericText, MixedText}

\* Errors raised while a stream is being iterated.
StreamErrTexts == {OverloadedText, GenericText}

\* Delta texts: empty, plain, and starting with a newline.
DeltaTexts == {EmptyText, <<"a">>, <<NL, "b">>}
ThinkingTexts == {EmptyText, <<"t">>}

Event(t, b, th, tx) == [type |-> t, block |-> b, thinking |-> th, text |-> tx]

\* Events of the Anthropic message stream; a delta carries a thinking text or
\* a text (an absent attribute and an empty one are both falsy to the decoder).
ClaudeEvents ==
  {Event("message_start", "none", EmptyText, EmptyText),
   Event("content_block_stop", "none", EmptyText, EmptyText),
   Event("message_stop", "none", EmptyText, EmptyText)}
  \cup {Event("content_block_start", b, EmptyText, EmptyText) :
          b \in {"thinking", "text", "tool_use"}}
  \cup {Event("content_block_delta", "none", th, EmptyText) :
          th \in ThinkingTexts \ {EmptyText}}
  \cup {Event("content_block_delta", "none", EmptyText, tx) : tx \in DeltaTexts}

\* Chunks of the OpenAI stream: chunk.choices[0].delta.content (None as empty).
OpenAIChunks == {Event("chunk", "none", EmptyText, tx) : tx \in DeltaTexts}

\* Content blocks of a blocking Anthropic response.
Block(t, th, tx) == [type |-> t, thinking |-> th, text |-> tx]
Contents ==
  { <<Block("text", EmptyText, <<"a">>)>>,
    <<Block("thinking", <<"t">>, EmptyText), Block("text", EmptyText, <<"a">>)>>,
    <<Block("tool_use", EmptyText, EmptyText), Block("text", EmptyText, <<NL, "b">>)>> }

\* One transport invocation either raises err or returns (a stream, or a
\* response holding content).
Raises(e)  == [ok |-> FALSE, err |-> e, content |-> << >>]
Returns(c) == [ok |-> TRUE, err |-> EmptyText, content |-> c]
Outcomes == {Raises(e) : e \in ErrTexts} \cup {Returns(c) : c \in Contents}

\* Outcome of the n-th invocation; a script that has run out raises.
OutcomeAt(n) == IF n <= Len(script) THEN script[n] ELSE Raises(GenericText)

----------------------------------------------------------------------------
\* ClaudeClient.create_stream: the decoder's step on one event.
\* Returns the new locals, the fragments yielded and whether the loop breaks.

Decoded(tc, xc, ct, fr, st) ==
  [thinking_content |-> tc, text_content |-> xc, current_content_type |-> ct,
   frags |-> fr, stop |-> st]

DecodeBlockStart(ev, tc, xc, ct) ==
  IF ev.block = "thinking"
  THEN Decoded(EmptyText, xc, ev.block, <<ThinkingHeader>>, FALSE)
  ELSE Decoded(tc, xc, ev.block, << >>, FALSE)

DecodeDelta(ev, tc, xc, ct) ==
  IF ev.thinking # EmptyText
  THEN Decoded(tc \o ev.thinking, xc, ct, <<ev.thinking>>, FALSE)
  ELSE IF ev.text # EmptyText
  THEN LET acc == xc \o ev.text IN
       IF tc # EmptyText /\ ~StartsWithNL(acc)
       THEN Decoded(tc, ResponseHeader \o ev.text, ct,
                    <<ResponseHeader, ev.text>>, FALSE)
       ELSE Decoded(tc, acc, ct, <<ev.text>>, FALSE)
  ELSE Decoded(tc, xc, ct, << >>, FALSE)

DecodeBlockStop(ev, tc, xc, ct) ==
  IF ct = "thinking"
  THEN Decoded(tc, xc, ct, <<ThinkingSeparator>>, FALSE)
  ELSE Decoded(tc, xc, ct, << >>, FALSE)

\* message_stop handled without the break.
DecodeMessageStopContinue(ev, tc, xc, ct) == Decoded(tc, xc, ct, << >>, FALSE)

DecodeMessageStop(ev, tc, xc, ct) == Decoded(tc, xc, ct, << >>, TRUE)

DecodeEvent(ev, tc, xc, ct) ==
  CASE ev.type = "message_start"       -> Decoded(tc, xc, ct, << >>, FALSE)
    [] ev.type = "content_block_start" -> DecodeBlockStart(ev, tc, xc, ct)
    [] ev.type = "content_block_delta" -> DecodeDelta(ev, tc, xc, ct)
    [] ev.type = "content_block_stop"  -> DecodeBlockStop(ev, tc, xc, ct)
    [] ev.type = "message_stop"        -> DecodeMessageStop(ev, tc, xc, ct)
    [] OTHER                           -> Decoded(tc, xc, ct, << >>, FALSE)

\* ClaudeClient.create_response: the normalisation of the response content.
RECURSIVE CombineBlocks(_)
CombineBlocks(bs) ==
  IF bs = << >> THEN EmptyText
  ELSE LET b == Head(bs)
           piece == IF b.type = "thinking"
                    THEN ThinkingHeader \o b.thinking \o <<NL, NL, "---">>
                         \o ResponseHeader
                    ELSE IF b.type = "text" THEN b.text ELSE EmptyText
       IN piece \o CombineBlocks(Tail(bs))

NormalizeResponse(content) == Strip(CombineBlocks(content))

----------------------------------------------------------------------------
\* Messages and ClaudeClient._convert_messages_to_claude_format

\* A content is a string, a list of blocks, or any other value (its str() is
\* kept in text).  A list element is a string, a dict or any other value.
Str(t)    == [kind |-> "str", text |-> t, blocks |-> << >>]
List(bs)  == [kind |-> "list", text |-> EmptyText, blocks |-> bs]
Other(t)  == [kind |-> "other", text |-> t, blocks |-> << >>]

StrElem(t)   == [kind |-> "str", type |-> "none", text |-> t,
                 file_id |-> "none", filename |-> "none"]
TextBlock(t) == [kind |-> "dict", type |-> "text", text |-> t,
                 file_id |-> "none", filename |-> "none"]
FileBlock(ty, id, fn) == [kind |-> "dict", type |-> ty, text |-> EmptyText,
                          file_id |-> id, filename |-> fn]
OtherElem(t) == [kind |-> "other", type |-> "none", text |-> t,
                 file_id |-> "none", filename |-> "none"]

Msg(r, c) == [role |-> r, content |-> c]

\* Lines 291-299: the blocks of a list content.
RECURSIVE FormatBlocks(_)
FormatBlocks(bs) ==
  IF bs = << >> THEN << >>
  ELSE LET b == Head(bs)
           fb == IF b.kind = "str" THEN <<TextBlock(b.text)>>
                 ELSE IF b.kind = "dict" THEN <<b>>
                 ELSE << >>
       IN fb \o FormatBlocks(Tail(bs))

\* The content sent as its text alone, whatever blocks it holds.
ConvertContentTextOnly(c) == Str(c.text)

\* Lines 279-310: the content of one non-system message.
ConvertContent(c) ==
  IF c.kind = "str" THEN c
  ELSE IF c.kind = "list" THEN List(FormatBlocks(c.blocks))
  ELSE Str(c.text)

\* Lines 271-310: the first loop, which skips the system messages.
RECURSIVE ConvertLoop(_)
ConvertLoop(ms) ==
  IF ms = << >> THEN << >>
  ELSE LET m == Head(ms)
           cm == IF m.role = "system" THEN << >>
                 ELSE <<Msg(m.role, ConvertContent(m.content))>>
       IN cm \o ConvertLoop(Tail(ms))

\* Lines 319-321: the text blocks of a system message with a list content.
RECURSIVE SystemBlocksText(_)
SystemBlocksText(bs) ==
  IF bs = << >> THEN EmptyText
  ELSE LET b == Head(bs)
           t == IF b.kind = "dict" /\ b.type = "text"
                THEN b.text \o <<NL, NL>> ELSE EmptyText
       IN t \o SystemBlocksText(Tail(bs))

\* Lines 313-321: system_content.
RECURSIVE SystemContent(_)
SystemContent(ms) ==
  IF ms = << >> THEN EmptyText
  ELSE LET m == Head(ms)
           t == IF m.role # "system" THEN EmptyText
                ELSE IF m.content.kind = "str" THEN m.content.text \o <<NL, NL>>
                ELSE IF m.content.kind = "list"
                     THEN SystemBlocksText(m.content.blocks)
                ELSE EmptyText
       IN t \o SystemContent(Tail(ms))

\* Lines 323-331: the fold of system_content into claude_messages[0].
FoldSystem(system_content, cms) ==
  IF system_content # EmptyText /\ cms # << >>
     /\ cms[1].role = "user"
  THEN LET first_content == cms[1].content
           folded == IF first_content.kind = "str"
                     THEN Str(system_content \o first_content.text)
                     ELSE List(<<TextBlock(system_content)>>
                               \o first_content.blocks)
       IN <<Msg("user", folded)>> \o Tail(cms)
  ELSE cms

ConvertMessagesToClaudeFormat(ms) == FoldSystem(SystemContent(ms), ConvertLoop(ms))

\* claude_messages.append(msg): the k-th dict of the caller itself.
CallerDict(k) == k

\* Lines 283-286, 301-304, 307-310: the dict appended for the caller's k-th
\* message is a new object (0: none of the caller's dicts).
AppendedDict(k) == 0

\* The caller's list after the call.  The only write to an existing object
\* is the item assignment claude_messages[0]["content"] = ... of lines
\* 326-331; it reaches the caller's message when claude_messages[0] is the
\* caller's dict.  The list case builds its value with +, a new list.
MessagesAfterConvert(ms) ==
  LET cms == ConvertLoop(ms)
      system_content == SystemContent(ms)
      NonSystem == {i \in 1..Len(ms) : ms[i].role # "system"}
  IN IF system_content # EmptyText /\ cms # << >> /\ cms[1].role = "user"
     THEN LET k == CHOOSE i \in NonSystem : \A j \in NonSystem : i <= j
              alias == AppendedDict(k)
          IN IF alias = 0 THEN ms
             ELSE [ms EXCEPT ![alias].content =
                               FoldSystem(system_content, cms)[1].content]
     ELSE ms

\* ClaudeClient._has_file_references (every file block of the model has a
\* source of type "file").
HasFileReferences(cms) ==
  \E i \in 1..Len(cms) :
    /\ cms[i].content.kind = "list"
    /\ \E j \in 1..Len(cms[i].content.blocks) :
         /\ cms[i].content.blocks[j].kind = "dict"
         /\ cms[i].content.blocks[j].type \in {"document", "image", "container_upload"}

\* What create_stream / create_response pass to messages.create.
ClaudeRequest(ms, streaming) ==
  LET cms == ConvertMessagesToClaudeFormat(ms) IN
  [messages |-> cms, stream |-> streaming,
   beta |-> IF HasFileReferences(cms) THEN "files-api-2025-04-14" ELSE "none"]

\* OpenAIClient passes the caller's messages on unchanged.
OpenAIRequest(ms, streaming) == [messages |-> ms, stream |-> streaming, beta |-> "none"]

NoRequest == [messages |-> << >>, stream |-> FALSE, beta |-> "none"]

----------------------------------------------------------------------------
\* file_manager.prepare_message_content

\* The pending file reference without its display name.
KeepFilename(file_ref) == file_ref

\* Line 206: {k: v for k, v in file_ref.items() if k != "filename"}
StripFilename(file_ref) == [file_ref EXCEPT !.filename = "none"]

\* Lines 198-213: the prompt alone when no file is pending, else the prompt
\* as a text block followed by the pending file references.
PrepareMessageContent(prompt, pending) ==
  LET user_content ==
        <<TextBlock(prompt)>>
        \o [i \in 1..Len(pending) |-> StripFilename(pending[i])]
  IN IF Len(user_content) = 1 THEN Str(prompt) ELSE List(user_content)

----------------------------------------------------------------------------
\* Inputs

\* Message list of the requests (the translator is explored in SpecConv).
RequestMessages ==
  { <<Msg("system", Str(<<"S">>)),
      Msg("user", List(<<TextBlock(<<"hi">>),
                         FileBlock("document", "file_1", "a.pdf")>>))>> }

\* Message lists given to the translator.
\* st.session_state.pending_files as create_file_reference builds it.
PendingFiles == <<FileBlock("document", "file_1", "a.pdf")>>

\* Contents the app builds with prepare_message_content.
PreparedContents == {PrepareMessageContent(<<"p">>, PendingFiles)}

\* Contents of any shape: strings, lists of strings, blocks and other
\* values, and values that are neither string nor list.
ConvContents ==
  {Str(<<"a">>), List(<<TextBlock(<<"c">>)>>),
   List(<<StrElem(<<"s">>), FileBlock("image", "file_2", "b.png")>>),
   List(<<TextBlock(<<"c">>), OtherElem(<<"7">>)>>),
   Other(<<"7">>)}
  \cup PreparedContents
\* A system prompt is a string or a list of text blocks.
SystemContents == {Str(<<"a">>), List(<<TextBlock(<<"c">>)>>)}
ConvMsgs ==
  {Msg(r, c) : r \in {"user", "assistant"}, c \in ConvContents}
  \cup {Msg("system", c) : c \in SystemContents}

SeqsUpTo(S, n) == UNION {[1..k -> S] : k \in 0..n}

\* Streaming tests mock one behaviour for every invocation.
StreamOutcomes == {Raises(e) : e \in ErrTexts} \cup {Returns(<< >>)}
StreamScripts == {[i \in 1..MaxScript |-> o] : o \in StreamOutcomes}

\* A blocking OpenAI response holds one message text.
OpenAIOutcomes ==
  {Raises(e) : e \in ErrTexts}
  \cup {Returns(<<Block("text", EmptyText, t)>>) : t \in DeltaTexts \ {EmptyText}}

Scripts(m, p) ==
  IF m = "stream" THEN StreamScripts
  ELSE IF p = "claude" THEN SeqsUpTo(Outcomes, MaxScript) \ {<< >>}
  ELSE SeqsUpTo(OpenAIOutcomes, MaxScript) \ {<< >>}

\* Lines 89, 107: thinking_enabled=False, thinking_budget=4000; tools is not
\* passed.
DefaultOptions ==
  [thinking_enabled |-> FALSE, thinking_budget |-> 4000, tools |-> "unset"]

\* Options a caller can pass by keyword.
Options ==
  [thinking_enabled : BOOLEAN, thinking_budget : {4000, 8000},
   tools : {"unset", "web_search"}]

\* Lines 89, 107: the signature of OpenAIClient.create_stream and
\* create_response has thinking_enabled and thinking_budget and no tools
\* parameter; a keyword it does not have raises TypeError at the call.
OpenAIAccepts(opts) == opts.tools = "unset"

InitLocals ==
  /\ pc = "start"
  /\ calls = 0
  /\ request = NoRequest
  /\ events = << >>
  /\ out = << >>
  /\ thinking_content = EmptyText
  /\ text_content = EmptyText
  /\ current_content_type = "none"
  /\ claude_messages = << >>
  /\ result = EmptyText
  /\ waited = 0
  /\ transport_error = EmptyText
  /\ raised = FALSE

\* The registry before any call on it.
NoClient == [class |-> "none", id |-> 0]
RegistryIdle ==
  /\ api_keys = {}
  /\ client_instances = [p \in {"openai", "claude"} |-> NoClient]
  /\ constructions = << >>
  /\ callers = << >>
  /\ log = << >>

\* The application state before any call on it.
NoReturn == [value |-> << >>, error |-> "none"]
AppIdle ==
  /\ files = {}
  /\ uploaded_files = << >>
  /\ pending_files = << >>
  /\ attached = << >>
  /\ prepared = << >>
  /\ returned = NoReturn

Init ==
  /\ mode \in {"stream", "response"}
  /\ provider \in {"claude", "openai"}
  /\ messages \in RequestMessages
  /\ script \in Scripts(mode, provider)
  /\ InitLocals
  /\ options = DefaultOptions
  /\ RegistryIdle
  /\ AppIdle

----------------------------------------------------------------------------
\* ClaudeClient.create_stream

\* The handler without its except clause: the error reaches the consumer.
ClaudeStreamExceptUncaught(frags, e) == [out |-> frags, raised |-> TRUE]

\* Lines 213-214: except Exception as e: yield f"Error: {e}"
ClaudeStreamExcept(frags, e) == [out |-> Append(frags, FormatError(e)), raised |-> FALSE]

\* Lines 143-178: translate, build the request, invoke the transport.
ClaudeCreateStream ==
  /\ mode = "stream" /\ provider = "claude" /\ pc = "start"
  /\ calls' = calls + 1
  /\ claude_messages' = ConvertMessagesToClaudeFormat(messages)
  /\ request' = ClaudeRequest(messages, TRUE)
  /\ thinking_content' = EmptyText
  /\ text_content' = EmptyText
  /\ current_content_type' = "none"
  /\ LET o == OutcomeAt(calls + 1) IN
       IF o.ok
       THEN pc' = "streaming" /\ out' = out /\ raised' = raised
       ELSE LET h == ClaudeStreamExcept(out, o.err) IN
            pc' = "done" /\ out' = h.out /\ raised' = h.raised
  /\ transport_error' = OutcomeAt(calls + 1).err
  /\ messages' = MessagesAfterConvert(messages)
  /\ UNCHANGED <<options, mode, provider, script, events, result, waited>>
  /\ UNCHANGED regVars
  /\ UNCHANGED appVars

\* Lines 180-211: one iteration of the loop over the events (the provider
\* sends message_start only as the first event of a stream).
ClaudeStreamEvent(ev) ==
  /\ mode = "stream" /\ provider = "claude" /\ pc = "streaming"
  /\ Len(events) < MaxEvents
  /\ ev.type = "message_start" => events = << >>
  /\ LET d == DecodeEvent(ev, thinking_content, text_content, current_content_type) IN
       /\ events' = Append(events, ev)
       /\ out' = out \o d.frags
       /\ thinking_content' = d.thinking_content
       /\ text_content' = d.text_content
       /\ current_content_type' = d.current_content_type
       /\ pc' = IF d.stop THEN "done" ELSE "streaming"
  /\ UNCHANGED <<options, mode, provider, messages, script, calls, request,
                 claude_messages, result, waited, raised, transport_error>>
  /\ UNCHANGED regVars
  /\ UNCHANGED appVars

\* Line 180: the event iterator is exhausted.
ClaudeStreamEnd ==
  /\ mode = "stream" /\ provider = "claude" /\ pc = "streaming"
  /\ pc' = "done"
  /\ UNCHANGED <<options, mode, provider, messages, script, calls, request, events, out,
                 thinking_content, text_content, current_content_type,
                 claude_messages, result, waited, raised, transport_error>>
  /\ UNCHANGED regVars
  /\ UNCHANGED appVars

\* Lines 180, 213-214: the transport raises while the events are iterated.
ClaudeStreamError(e) ==
  /\ mode = "stream" /\ provider = "claude" /\ pc = "streaming"
  /\ LET h == ClaudeStreamExcept(out, e) IN
       pc' = "done" /\ out' = h.out /\ raised' = h.raised
  /\ transport_error' = e
  /\ UNCHANGED <<options, mode, provider, messages, script, calls, request, events,
                 thinking_content, text_content, current_content_type,
                 claude_messages, result, waited>>
  /\ UNCHANGED regVars
  /\ UNCHANGED appVars

----------------------------------------------------------------------------
\* ClaudeClient.create_response

\* Lines 260-261: except Exception as e: return f"Error: {e}"
ClaudeResponseExcept(e) == FormatError(e)

\* Lines 218-261: the whole call.
ClaudeCreateResponse ==
  /\ mode = "response" /\ provider = "claude" /\ pc = "start"
  /\ calls' = calls + 1
  /\ claude_messages' = ConvertMessagesToClaudeFormat(messages)
  /\ request' = ClaudeRequest(messages, FALSE)
  /\ LET o == OutcomeAt(calls + 1) IN
       result' = IF o.ok THEN NormalizeResponse(o.content)
                 ELSE ClaudeResponseExcept(o.err)
  /\ pc' = "done"
  /\ transport_error' = OutcomeAt(calls + 1).err
  /\ messages' = MessagesAfterConvert(messages)
  /\ UNCHANGED <<options, mode, provider, script, events, out,
                 thinking_content, text_content, current_content_type,
                 waited, raised>>
  /\ UNCHANGED regVars
  /\ UNCHANGED appVars

----------------------------------------------------------------------------
\* OpenAIClient

\* Lines 104-105: except Exception as e: yield f"Error: {e}"
OpenAIStreamExcept(frags, e) == [out |-> Append(frags, FormatError(e)), raised |-> FALSE]

\* Lines 92-97: invoke the transport.
OpenAICreateStream ==
  /\ mode = "stream" /\ provider = "openai" /\ pc = "start"
  /\ IF OpenAIAccepts(options)
     THEN /\ calls' = calls + 1
          /\ request' = OpenAIRequest(messages, TRUE)
          /\ LET o == OutcomeAt(calls + 1) IN
               IF o.ok
               THEN pc' = "streaming" /\ out' = out /\ raised' = raised
               ELSE LET h == OpenAIStreamExcept(out, o.err) IN
                    pc' = "done" /\ out' = h.out /\ raised' = h.raised
          /\ transport_error' = OutcomeAt(calls + 1).err
     ELSE /\ pc' = "done" /\ raised' = TRUE
          /\ UNCHANGED <<calls, request, out, transport_error>>
  /\ UNCHANGED <<options, mode, provider, messages, script, events, thinking_content,
                 text_content, current_content_type, claude_messages, result,
                 waited>>
  /\ UNCHANGED regVars
  /\ UNCHANGED appVars

\* Lines 99-102: one chunk; an empty content is not yielded.
OpenAIStreamChunk(ev) ==
  /\ mode = "stream" /\ provider = "openai" /\ pc = "streaming"
  /\ Len(events) < MaxEvents
  /\ events' = Append(events, ev)
  /\ out' = IF ev.text # EmptyText THEN Append(out, ev.text) ELSE out
  /\ UNCHANGED <<options, mode, provider, messages, script, pc, calls, request,
                 thinking_content, text_content, current_content_type,
                 claude_messages, result, waited, raised, transport_error>>
  /\ UNCHANGED regVars
  /\ UNCHANGED appVars

\* Line 99: the chunk iterator is exhausted.
OpenAIStreamEnd ==
  /\ mode = "stream" /\ provider = "openai" /\ pc = "streaming"
  /\ pc' = "done"
  /\ UNCHANGED <<options, mode, provider, messages, script, calls, request, events, out,
                 thinking_content, text_content, current_content_type,
                 claude_messages, result, waited, raised, transport_error>>
  /\ UNCHANGED regVars
  /\ UNCHANGED appVars

\* Lines 99, 104-105: the transport raises while the chunks are iterated.
OpenAIStreamError(e) ==
  /\ mode = "stream" /\ provider = "openai" /\ pc = "streaming"
  /\ LET h == OpenAIStreamExcept(out, e) IN
       pc' = "done" /\ out' = h.out /\ raised' = h.raised
  /\ transport_error' = e
  /\ UNCHANGED <<options, mode, provider, messages, script, calls, request, events,
                 thinking_content, text_content, current_content_type,
                 claude_messages, result, waited>>
  /\ UNCHANGED regVars
  /\ UNCHANGED appVars

\* Lines 110-120: the whole blocking call.
OpenAICreateResponse ==
  /\ mode = "response" /\ provider = "openai" /\ pc = "start"
  /\ IF OpenAIAccepts(options)
     THEN /\ calls' = calls + 1
          /\ request' = OpenAIRequest(messages, FALSE)
          /\ LET o == OutcomeAt(calls + 1) IN
               result' = IF o.ok THEN o.content[1].text ELSE FormatError(o.err)
          /\ transport_error' = OutcomeAt(calls + 1).err
          /\ raised' = raised
     ELSE /\ raised' = TRUE
          /\ UNCHANGED <<calls, request, result, transport_error>>
  /\ pc' = "done"
  /\ UNCHANGED <<options, mode, provider, messages, script, events, out,
                 thinking_content, text_content, current_content_type,
                 claude_messages, waited>>
  /\ UNCHANGED regVars
  /\ UNCHANGED appVars

Next ==
  \/ ClaudeCreateStream
  \/ \E ev \in ClaudeEvents : ClaudeStreamEvent(ev)
  \/ ClaudeStreamEnd
  \/ \E e \in StreamErrTexts : ClaudeStreamError(e)
  \/ ClaudeCreateResponse
  \/ OpenAICreateStream
  \/ \E ev \in OpenAIChunks : OpenAIStreamChunk(ev)
  \/ OpenAIStreamEnd
  \/ \E e \in StreamErrTexts : OpenAIStreamError(e)
  \/ OpenAICreateResponse

Spec == Init /\ [][Next]_vars

\* OpenAIClient called with every combination of keyword options.
InitOptions ==
  /\ mode \in {"stream", "response"}
  /\ provider = "openai"
  /\ messages \in RequestMessages
  /\ script \in Scripts(mode, provider)
  /\ InitLocals
  /\ options \in Options
  /\ RegistryIdle
  /\ AppIdle

NextOptions ==
  \/ OpenAICreateStream
  \/ \E ev \in OpenAIChunks : OpenAIStreamChunk(ev)
  \/ OpenAIStreamEnd
  \/ \E e \in StreamErrTexts : OpenAIStreamError(e)
  \/ OpenAICreateResponse

SpecOptions == InitOptions /\ [][NextOptions]_vars

----------------------------------------------------------------------------
\* The translator on its own

InitConv ==
  /\ mode = "convert"
  /\ provider = "claude"
  /\ messages \in SeqsUpTo(ConvMsgs, MaxMsgs)
  /\ script = << >>
  /\ InitLocals
  /\ options = DefaultOptions
  /\ RegistryIdle
  /\ AppIdle

\* Lines 267-333: one call of _convert_messages_to_claude_format.
Convert ==
  /\ mode = "convert" /\ pc = "start"
  /\ claude_messages' = ConvertMessagesToClaudeFormat(messages)
  /\ pc' = "done"
  /\ messages' = MessagesAfterConvert(messages)
  /\ UNCHANGED <<options, mode, provider, script, calls, request, events, out,
                 thinking_content, text_content, current_content_type, result,
                 waited, raised, transport_error>>
  /\ UNCHANGED regVars
  /\ UNCHANGED appVars

NextConv == Convert

SpecConv == InitConv /\ [][NextConv]_vars

----------------------------------------------------------------------------
\* ClaudeClient.create_web_search_tool, as the tests and
\* web_search_example.py call it

\* Lines 126-413: the methods ClaudeClient defines or inherits.
ClaudeClientMethods ==
  {"__init__", "create_stream", "create_response", "get_available_models",
   "_convert_messages_to_claude_format", "_has_file_references",
   "upload_file", "list_files", "delete_file", "get_file_info"}

\* A keyword argument: not passed (or None), or passed with a value.
NotGiven(v) == [given |-> FALSE, value |-> v]
Given(v) == [given |-> TRUE, value |-> v]

\* The keyword arguments the tests pass.
ToolParams ==
  [max_uses : {NotGiven(0), Given(1), Given(5), Given(10)},
   allowed_domains : {NotGiven(<< >>), Given(<< >>), Given(<<"example.com">>)},
   blocked_domains : {NotGiven(<< >>), Given(<< >>), Given(<<"spam.com">>)},
   user_location : {NotGiven(""), Given("New York, US")}]

InitTool ==
  /\ mode = "web_search_tool"
  /\ provider = "claude"
  /\ messages = << >>
  /\ script = << >>
  /\ InitLocals
  /\ options \in ToolParams
  /\ RegistryIdle
  /\ AppIdle

\* client.create_web_search_tool(**options): the attribute look-up on the
\* ClaudeClient instance raises AttributeError when the class has no such
\* method, and no descriptor is returned.
CreateWebSearchTool ==
  /\ mode = "web_search_tool" /\ pc = "start"
  /\ pc' = "done"
  /\ raised' = ("create_web_search_tool" \notin ClaudeClientMethods)
  /\ UNCHANGED <<options, mode, provider, messages, script, calls, request, events,
                 out, thinking_content, text_content, current_content_type,
                 claude_messages, result, waited, transport_error>>
  /\ UNCHANGED regVars
  /\ UNCHANGED appVars

NextTool == CreateWebSearchTool

SpecTool == InitTool /\ [][NextTool]_vars

----------------------------------------------------------------------------
\* The provider registry: get_ai_client and get_available_models

\* Lines 417-420: PROVIDERS, in the order of the dict.
PROVIDERS == <<"openai", "claude">>
Providers == {PROVIDERS[i] : i \in 1..Len(PROVIDERS)}
ClientClass(p) == IF p = "openai" THEN "OpenAIClient" ELSE "ClaudeClient"

\* Model names callers pass: the registered ones and an unknown one.
KnownModels == {"gpt-4o", "gpt-3.5-turbo", "claude-sonnet-4-20250514"}
ModelNames == {"gpt-4o", "claude-sonnet-4-20250514", "unknown-model"}

\* Lines 423-430: MODEL_PROVIDERS.get(model); None for an unknown name.
ModelProviders(model) ==
  IF model \in {"gpt-4o", "gpt-3.5-turbo"} THEN "openai"
  ELSE IF model = "claude-sonnet-4-20250514" THEN "claude"
  ELSE "none"

\* An unknown model name mapped to the other provider.
ProviderOfDefaultClaude(model) ==
  IF ModelProviders(model) = "none" THEN "claude" ELSE ModelProviders(model)

\* Lines 437-440: the provider tag get_ai_client works with.
ProviderOf(model) ==
  IF ModelProviders(model) = "none" THEN "openai" ELSE ModelProviders(model)

\* A cache that is never consulted.
NeverCached(cache, p) == FALSE

\* Lines 443, 464: provider in client_instances.
Cached(cache, p) == cache[p] # NoClient

\* A constructor that succeeds without its API key.
ConstructorNeverFails(class, keys) == TRUE

\* Lines 50-53, 129-133: the constructor raises ValueError when the API key
\* of its provider is not in the environment.
ConstructorOk(class, keys) ==
  IF class = "OpenAIClient" THEN "openai" \in keys ELSE "claude" \in keys

\* The client a successful construction returns; its id tells it from
\* every other object.
NewClient(class, made) == [class |-> class, id |-> Len(made) + 1]

\* An except clause that re-raises whatever the provider.
ExceptAlwaysRaises(p) == "raise"

\* Lines 447-454: the except clause of get_ai_client.
GetClientExcept(p) == IF p # "openai" THEN "fallback" ELSE "raise"

\* A listing without its except clause.
ListingExceptUncaught(models, p) == [models |-> models, raised |-> TRUE]

\* Lines 467-469: the except clause of get_available_models.
ListingExcept(models, p) ==
  [models |-> [q \in DOMAIN models \cup {p} |->
                 IF q = p THEN << >> ELSE models[q]],
   raised |-> FALSE]

\* Lines 122-124, 263-265: the get_available_models method of a client.
ClientModels(client) ==
  IF client.class = "OpenAIClient" THEN <<"gpt-4o", "gpt-3.5-turbo">>
  ELSE <<"claude-sonnet-4-20250514">>

\* An assignment that leaves the cache alone.
CacheUnchanged(cache, p, client) == cache

\* Lines 446, 452, 465: client_instances[provider] = client.
CacheStore(cache, p, client) == [cache EXCEPT ![p] = client]

Idle == [pc |-> "idle", op |-> "none", model |-> "none", provider |-> "none",
         obj |-> NoClient, rest |-> << >>, models |-> << >>, failed |-> {},
         before |-> << >>]

\* What a finished call leaves in the log.
Returned(t, client, models) ==
  [thread |-> t, op |-> callers[t].op, model |-> callers[t].model, raised |-> FALSE,
   client |-> client, models |-> models, failed |-> callers[t].failed,
   before |-> callers[t].before, after |-> client_instances]
Raised(t, failed) ==
  [thread |-> t, op |-> callers[t].op, model |-> callers[t].model, raised |-> TRUE,
   client |-> NoClient, models |-> << >>, failed |-> failed,
   before |-> callers[t].before, after |-> client_instances]

Started == Len(log) + Cardinality({t \in DOMAIN callers : callers[t].pc # "idle"})

InitRegistry(threads) ==
  /\ mode = "registry"
  /\ provider = "openai"
  /\ messages = << >>
  /\ script = << >>
  /\ InitLocals
  /\ options = DefaultOptions
  /\ api_keys \in SUBSET Providers
  /\ client_instances = [p \in Providers |-> NoClient]
  /\ constructions = << >>
  /\ callers = [t \in threads |-> Idle]
  /\ log = << >>
  /\ AppIdle

\* Lines 435-443: the call, up to the look-up in the cache.
GetAiClient(t, model) ==
  /\ mode = "registry" /\ callers[t].pc = "idle"
  /\ Started < MaxCalls
  /\ LET p == ProviderOf(model) IN
       callers' = [callers EXCEPT ![t] =
                     [Idle EXCEPT !.op = "get_ai_client", !.model = model,
                                  !.provider = p, !.before = client_instances,
                                  !.pc = IF Cached(client_instances, p)
                                         THEN "return" ELSE "construct"]]
  /\ UNCHANGED <<api_keys, client_instances, constructions, log>>
  /\ UNCHANGED clientVars
  /\ UNCHANGED appVars

\* Lines 444-454: client_class(), and the except clause when it raises.
GetAiClientConstruct(t) ==
  /\ mode = "registry" /\ callers[t].pc = "construct"
  /\ LET p == callers[t].provider
         class == ClientClass(p)
     IN IF ConstructorOk(class, api_keys)
        THEN /\ constructions' = Append(constructions, [tag |-> p, class |-> class])
             /\ callers' = [callers EXCEPT ![t].obj = NewClient(class, constructions),
                                           ![t].pc = "store"]
             /\ log' = log
        ELSE IF GetClientExcept(p) = "fallback"
        THEN /\ callers' = [callers EXCEPT ![t].failed = @ \cup {p},
                                           ![t].pc = "fallback"]
             /\ UNCHANGED <<constructions, log>>
        ELSE /\ log' = Append(log, Raised(t, {p}))
             /\ callers' = [callers EXCEPT ![t] = Idle]
             /\ UNCHANGED constructions
  /\ UNCHANGED <<api_keys, client_instances>>
  /\ UNCHANGED clientVars
  /\ UNCHANGED appVars

\* Line 452: OpenAIClient() inside the except clause; its exception is not
\* caught.
GetAiClientFallback(t) ==
  /\ mode = "registry" /\ callers[t].pc = "fallback"
  /\ LET p == callers[t].provider IN
       IF ConstructorOk("OpenAIClient", api_keys)
       THEN /\ constructions' = Append(constructions,
                                       [tag |-> p, class |-> "OpenAIClient"])
            /\ callers' = [callers EXCEPT
                             ![t].obj = NewClient("OpenAIClient", constructions),
                             ![t].pc = "store"]
            /\ log' = log
       ELSE /\ log' = Append(log, Raised(t, callers[t].failed \cup {"openai"}))
            /\ callers' = [callers EXCEPT ![t] = Idle]
            /\ UNCHANGED constructions
  /\ UNCHANGED <<api_keys, client_instances>>
  /\ UNCHANGED clientVars
  /\ UNCHANGED appVars

\* Lines 446, 452: the assignment to client_instances[provider].
GetAiClientStore(t) ==
  /\ mode = "registry" /\ callers[t].pc = "store"
  /\ client_instances' = CacheStore(client_instances, callers[t].provider,
                                    callers[t].obj)
  /\ callers' = [callers EXCEPT ![t].pc = "return"]
  /\ UNCHANGED <<api_keys, constructions, log>>
  /\ UNCHANGED clientVars
  /\ UNCHANGED appVars

\* Line 456: return client_instances[provider].
GetAiClientReturn(t) ==
  /\ mode = "registry" /\ callers[t].pc = "return"
  /\ log' = Append(log, Returned(t, client_instances[callers[t].provider], << >>))
  /\ callers' = [callers EXCEPT ![t] = Idle]
  /\ UNCHANGED <<api_keys, client_instances, constructions>>
  /\ UNCHANGED clientVars
  /\ UNCHANGED appVars

\* Lines 460-461: models = {} and the loop over PROVIDERS.
GetAvailableModels(t) ==
  /\ mode = "registry" /\ callers[t].pc = "idle"
  /\ Started < MaxCalls
  /\ callers' = [callers EXCEPT ![t] =
                   [Idle EXCEPT !.op = "get_available_models",
                                !.rest = PROVIDERS, !.before = client_instances,
                                !.pc = "list_check"]]
  /\ UNCHANGED <<api_keys, client_instances, constructions, log>>
  /\ UNCHANGED clientVars
  /\ UNCHANGED appVars

\* The loop goes on to the next provider, or ends.
NextProvider(c) ==
  [c EXCEPT !.rest = Tail(@),
            !.pc = IF Tail(c.rest) = << >> THEN "list_return" ELSE "list_check"]

\* Line 464: if provider_name not in client_instances.
ListCheck(t) ==
  /\ mode = "registry" /\ callers[t].pc = "list_check"
  /\ callers' = [callers EXCEPT ![t].pc =
                   IF Cached(client_instances, Head(callers[t].rest))
                   THEN "list_models" ELSE "list_construct"]
  /\ UNCHANGED <<api_keys, client_instances, constructions, log>>
  /\ UNCHANGED clientVars
  /\ UNCHANGED appVars

\* Lines 465, 467-469: client_class(), and the except clause when it raises.
ListConstruct(t) ==
  /\ mode = "registry" /\ callers[t].pc = "list_construct"
  /\ LET p == Head(callers[t].rest)
         class == ClientClass(p)
     IN IF ConstructorOk(class, api_keys)
        THEN /\ constructions' = Append(constructions, [tag |-> p, class |-> class])
             /\ callers' = [callers EXCEPT ![t].obj = NewClient(class, constructions),
                                           ![t].pc = "list_store"]
             /\ log' = log
        ELSE LET h == ListingExcept(callers[t].models, p) IN
             IF h.raised
             THEN /\ log' = Append(log, Raised(t, callers[t].failed \cup {p}))
                  /\ callers' = [callers EXCEPT ![t] = Idle]
                  /\ UNCHANGED constructions
             ELSE /\ callers' = [callers EXCEPT ![t] =
                                   NextProvider([callers[t] EXCEPT
                                                   !.models = h.models,
                                                   !.failed = @ \cup {p}])]
                  /\ UNCHANGED <<constructions, log>>
  /\ UNCHANGED <<api_keys, client_instances>>
  /\ UNCHANGED clientVars
  /\ UNCHANGED appVars

\* Line 465: the assignment to client_instances[provider_name].
ListStore(t) ==
  /\ mode = "registry" /\ callers[t].pc = "list_store"
  /\ client_instances' = CacheStore(client_instances, Head(callers[t].rest),
                                    callers[t].obj)
  /\ callers' = [callers EXCEPT ![t].pc = "list_models"]
  /\ UNCHANGED <<api_keys, constructions, log>>
  /\ UNCHANGED clientVars
  /\ UNCHANGED appVars

\* Line 466: models[provider_name] = client_instances[provider_name].get_available_models()
ListModels(t) ==
  /\ mode = "registry" /\ callers[t].pc = "list_models"
  /\ LET p == Head(callers[t].rest)
         ms == callers[t].models
     IN callers' = [callers EXCEPT ![t] =
                      NextProvider([callers[t] EXCEPT !.models =
                        [q \in DOMAIN ms \cup {p} |->
                           IF q = p THEN ClientModels(client_instances[p])
                           ELSE ms[q]]])]
  /\ UNCHANGED <<api_keys, client_instances, constructions, log>>
  /\ UNCHANGED clientVars
  /\ UNCHANGED appVars

\* Line 471: return models.
ListReturn(t) ==
  /\ mode = "registry" /\ callers[t].pc = "list_return"
  /\ log' = Append(log, Returned(t, NoClient, callers[t].models))
  /\ callers' = [callers EXCEPT ![t] = Idle]
  /\ UNCHANGED <<api_keys, client_instances, constructions>>
  /\ UNCHANGED clientVars
  /\ UNCHANGED appVars

NextRegistry ==
  \E t \in DOMAIN callers :
    \/ \E model \in ModelNames : GetAiClient(t, model)
    \/ GetAiClientConstruct(t)
    \/ GetAiClientFallback(t)
    \/ GetAiClientStore(t)
    \/ GetAiClientReturn(t)
    \/ GetAvailableModels(t)
    \/ ListCheck(t)
    \/ ListConstruct(t)
    \/ ListStore(t)
    \/ ListModels(t)
    \/ ListReturn(t)

\* One caller: every call runs to its end before the next one starts.
InitReg == InitRegistry({1})
SpecReg == InitReg /\ [][NextRegistry]_vars

\* Two threads of the Streamlit server share the module-level cache.
InitRace == InitRegistry({1, 2})
SpecRace == InitRace /\ [][NextRegistry]_vars

----------------------------------------------------------------------------
\* chat_history.auto_save_chat

\* A file name: the title, the counter of the uniqueness loop (0: none) and
\* the extension.  NoFile stands for None.
Filename(title, counter) == [title |-> title, counter |-> counter]
NoFile == Filename(<< >>, 0)

\* Line 43: the title when no user message gives one.
TimestampTitle == <<"chat_timestamp">>

\* Lines 35-37: msg["content"][:30].strip(), then the characters that are
\* alphanumeric, space, '-' or '_' (a newline is none of them).  A slice of
\* a list is a list and has no strip(): AttributeError; a content that is
\* neither string nor list cannot be sliced: TypeError.
TitleOfContent(content) ==
  IF content.kind = "str"
  THEN [raised |-> FALSE, title |-> SelectSeq(content.text, LAMBDA c : c # NL)]
  ELSE [raised |-> TRUE, title |-> << >>]

\* Lines 31-38: the loop to the first user message.
ChatTitle(ms) ==
  IF \E i \in 1..Len(ms) : ms[i].role = "user"
  THEN LET i == CHOOSE i \in 1..Len(ms) :
                  ms[i].role = "user" /\ \A j \in 1..(i - 1) : ms[j].role # "user"
       IN TitleOfContent(ms[i].content)
  ELSE [raised |-> FALSE, title |-> << >>]

\* Lines 47-55: the first of name.json, name_1.json, name_2.json, ... that
\* does not exist.
UniqueFilename(title, fs) ==
  IF Filename(title, 0) \notin fs THEN Filename(title, 0)
  ELSE LET free == {n \in 1..(Cardinality(fs) + 1) : Filename(title, n) \notin fs}
       IN Filename(title, CHOOSE n \in free : \A m \in free : n <= m)

\* Conversations the application saves.
SaveContents == {Str(<<"a">>), Str(<<NL>>)} \cup PreparedContents
SaveMsgs ==
  {Msg("user", c) : c \in SaveContents}
  \cup {Msg("assistant", Str(<<"a">>)), Msg("system", Str(<<"a">>))}

\* Chats already on disk, and the current_filename argument.
SavedBefore == {{}, {Filename(<<"a">>, 0)}, {Filename(<<"a">>, 0), Filename(<<"a">>, 1)}}
CurrentFilenames == {NoFile, Filename(<<"a">>, 0)}

InitSave ==
  /\ mode = "auto_save"
  /\ provider = "openai"
  /\ messages \in SeqsUpTo(SaveMsgs, MaxMsgs)
  /\ script = << >>
  /\ InitLocals
  /\ options \in [current_filename : CurrentFilenames]
  /\ RegistryIdle
  /\ files \in SavedBefore
  /\ uploaded_files = << >>
  /\ pending_files = << >>
  /\ attached = << >>
  /\ prepared = << >>
  /\ returned = [value |-> NoFile, error |-> "none"]

\* Lines 14-70: one call; write is what the file system does with the
\* open() and json.dump of lines 63-64.
AutoSaveChat(write) ==
  /\ mode = "auto_save" /\ pc = "start"
  /\ pc' = "done"
  /\ IF messages = << >>
     THEN /\ returned' = [value |-> NoFile, error |-> "none"]
          /\ UNCHANGED <<files, raised>>
     ELSE LET t == ChatTitle(messages) IN
          IF t.raised
          THEN /\ raised' = TRUE
               /\ UNCHANGED <<files, returned>>
          ELSE LET chat_title == IF t.title = << >> THEN TimestampTitle ELSE t.title
                   current_filename == options.current_filename
                   filename == IF current_filename # NoFile THEN current_filename
                               ELSE UniqueFilename(chat_title, files)
               IN /\ raised' = raised
                  /\ files' = IF write = "open_fails" THEN files
                              ELSE files \cup {filename}
                  /\ returned' = IF write = "ok"
                                 THEN [value |-> filename, error |-> "none"]
                                 ELSE [value |-> NoFile, error |-> "auto-saving"]
  /\ UNCHANGED <<options, mode, provider, messages, script, calls, request, events,
                 out, thinking_content, text_content, current_content_type,
                 claude_messages, result, waited, transport_error>>
  /\ UNCHANGED regVars
  /\ UNCHANGED <<uploaded_files, pending_files, attached, prepared>>

NextSave == \E write \in {"ok", "open_fails", "dump_fails"} : AutoSaveChat(write)

SpecSave == InitSave /\ [][NextSave]_vars

----------------------------------------------------------------------------
\* file_manager.upload_file

\* Lines 100-103: the finally clause; temp_path is None until line 77 has run.
CleanUp(fs, temp_path) == IF temp_path # 0 THEN fs \ {temp_path} ELSE fs

\* Uploaded files as the Files API describes them (ai_client.py, lines
\* 366-372): a PDF, an image and a file of another type.
FileInfos ==
  { [id |-> "file_1", filename |-> "a.pdf", mime_type |-> "application/pdf"],
    [id |-> "file_2", filename |-> "b.png", mime_type |-> "image/png"],
    [id |-> "file_3", filename |-> "c.csv", mime_type |-> "text/csv"] }

\* Lines 29-59: the content block of an uploaded file, by its MIME type.
CreateFileReference(file_info) ==
  FileBlock(IF file_info.mime_type \in {"application/pdf", "text/plain"}
              THEN "document"
            ELSE IF file_info.mime_type \in {"image/png", "image/jpeg"}
              THEN "image"
            ELSE "container_upload",
            file_info.id, file_info.filename)

\* Lines 127-130: the reference joins the pending files.
AttachFileToMessage(file_info) ==
  /\ mode = "upload"
  /\ calls < MaxCalls
  /\ calls' = calls + 1
  /\ pending_files' = Append(pending_files, CreateFileReference(file_info))
  /\ attached' = Append(attached, CreateFileReference(file_info))
  /\ UNCHANGED <<options, mode, provider, messages, script, pc, request, events,
                 out, thinking_content, text_content, current_content_type,
                 claude_messages, result, waited, transport_error, raised>>
  /\ UNCHANGED regVars
  /\ UNCHANGED <<files, uploaded_files, prepared, returned>>

\* The pending files after a message was built, had they been kept.
PendingKept(pending) == pending

\* Line 210: st.session_state.pending_files = []
PendingCleared(pending) == << >>

\* Lines 198-213: the content of the next message is built and returned.
PrepareMessage(prompt) ==
  /\ mode = "upload"
  /\ calls < MaxCalls
  /\ calls' = calls + 1
  /\ prepared' = Append(prepared, PrepareMessageContent(prompt, pending_files))
  /\ pending_files' = PendingCleared(pending_files)
  /\ UNCHANGED <<options, mode, provider, messages, script, pc, request, events,
                 out, thinking_content, text_content, current_content_type,
                 claude_messages, result, waited, transport_error, raised>>
  /\ UNCHANGED regVars
  /\ UNCHANGED <<files, uploaded_files, attached, returned>>

InitUpload ==
  /\ mode = "upload"
  /\ provider = "claude"
  /\ messages = << >>
  /\ script = << >>
  /\ InitLocals
  /\ options = DefaultOptions
  /\ RegistryIdle
  /\ files = {}
  /\ uploaded_files \in {<< >>, <<"file_1">>}
  /\ pending_files = << >>
  /\ attached = << >>
  /\ prepared = << >>
  /\ returned = [value |-> FALSE, error |-> "none"]

\* Lines 70-103: one call.  tempfile.NamedTemporaryFile gives the call a path
\* of its own (the number of the call).  write is what line 76 does; client
\* is what get_ai_client gives: a client with the Files API, a client whose
\* upload_file raises NotImplementedError (ai_client.py, lines 31-33), an
\* object without upload_file, or an exception; upload is what
\* ClaudeClient.upload_file does: it returns the info of a file id or raises.
UploadFile(write, client, upload) ==
  /\ mode = "upload"
  /\ calls < MaxCalls
  /\ calls' = calls + 1
  /\ LET created == files \cup {calls + 1}
         temp_path == IF write = "ok" THEN calls + 1 ELSE 0
         known == \E i \in 1..Len(uploaded_files) : uploaded_files[i] = upload
     IN /\ files' = CleanUp(created, temp_path)
        /\ IF write # "ok" \/ client = "raises"
           THEN /\ returned' = [value |-> FALSE, error |-> "Upload failed"]
                /\ UNCHANGED uploaded_files
           ELSE IF client = "NoUploadClient"
           THEN /\ returned' = [value |-> FALSE, error |-> "not supported"]
                /\ UNCHANGED uploaded_files
           ELSE IF client = "OpenAIClient" \/ upload = "raises"
           THEN /\ returned' = [value |-> FALSE, error |-> "Upload failed"]
                /\ UNCHANGED uploaded_files
           ELSE IF ~known
           THEN /\ returned' = [value |-> TRUE, error |-> "none"]
                /\ uploaded_files' = Append(uploaded_files, upload)
           ELSE /\ returned' = [value |-> FALSE, error |-> "none"]
                /\ UNCHANGED uploaded_files
  /\ UNCHANGED <<options, mode, provider, messages, script, pc, request, events,
                 out, thinking_content, text_content, current_content_type,
                 claude_messages, result, waited, transport_error, raised>>
  /\ UNCHANGED regVars
  /\ UNCHANGED <<pending_files, attached, prepared>>

NextUpload ==
  \/ \E write \in {"ok", "fails"},
        client \in {"ClaudeClient", "OpenAIClient", "NoUploadClient", "raises"},
        upload \in {"file_1", "file_2", "raises"} :
       UploadFile(write, client, upload)
  \/ \E file_info \in FileInfos : AttachFileToMessage(file_info)
  \/ \E prompt \in {<<"p">>, <<"q">>} : PrepareMessage(prompt)

SpecUpload == InitUpload /\ [][NextUpload]_vars

----------------------------------------------------------------------------
\* app.main, the exchange with the model

\* Lines 452-476 of app.py: full_response += chunk for every chunk that
\* stream_response yields; the sum becomes the assistant message of the
\* history.  "".join is spelled out here: the fragments in order, end to end.
RECURSIVE AssistantReply(_)
AssistantReply(chunks) ==
  IF chunks = << >> THEN Msg("assistant", Str(EmptyText))
  ELSE LET rest == AssistantReply(Tail(chunks))
       IN Msg("assistant", Str(Head(chunks) \o rest.content.text))

----------------------------------------------------------------------------
\* Vocabulary of the properties

IsErrorFragment(f) == f # << >> /\ f[1] = "Error:"

Indices(frags, S) == {i \in 1..Len(frags) : frags[i] \in S}

HasType(ev, t) == ev.type = t
IsBlockStart(ev, b) == ev.type = "content_block_start" /\ ev.block = b
IsThinkingDelta(ev) == ev.type = "content_block_delta" /\ ev.thinking # EmptyText
IsTextDelta(ev) == ev.type = "content_block_delta" /\ ev.text # EmptyText

MessageStopSeen == \E i \in 1..Len(events) : events[i].type = "message_stop"

\* The events form a thinking block (start, thinking deltas up to position k,
\* stop) followed by an answer block (start, text deltas).
ThinkingThenAnswer(evs) ==
  \E k \in 2..Len(evs) :
    /\ Len(evs) >= k + 3
    /\ IsBlockStart(evs[1], "thinking")
    /\ \A i \in 2..k : IsThinkingDelta(evs[i])
    /\ evs[k + 1].type = "content_block_stop"
    /\ IsBlockStart(evs[k + 2], "text")
    /\ \A i \in (k + 3)..Len(evs) : IsTextDelta(evs[i])

ThinkingFragments == ThinkingTexts \ {EmptyText}
AnswerFragments == DeltaTexts \ {EmptyText}

\* A fragment that reports tool activity names the tool.
IsToolActivity(f) ==
  \E i \in 1..Len(f) : f[i] \in {"web_search", "**Searching the web:**"}

\* The non-empty text deltas among the events from position n on, in order.
RECURSIVE TextDeltasFrom(_, _)
TextDeltasFrom(evs, n) ==
  IF n > Len(evs) THEN << >>
  ELSE (IF IsTextDelta(evs[n]) THEN <<evs[n].text>> ELSE << >>)
       \o TextDeltasFrom(evs, n + 1)

\* The answer fragments among the fragments from position n on, in order.
RECURSIVE AnswersFrom(_, _)
AnswersFrom(frags, n) ==
  IF n > Len(frags) THEN << >>
  ELSE (IF frags[n] \in AnswerFragments THEN <<frags[n]>> ELSE << >>)
       \o AnswersFrom(frags, n + 1)

----------------------------------------------------------------------------
\* Properties of create_stream

\* C1: create_stream of either client never raises to its consumer; when the
\* transport has failed (at the request or while events are iterated) the
\* fragment sequence ends with exactly one error fragment, which carries the
\* error text, and no fragment follows it; without a failure no error
\* fragment is yielded.
C1_StreamNeverRaises ==
  mode = "stream" =>
    /\ raised = FALSE
    /\ transport_error # EmptyText =>
         /\ pc = "done"
         /\ out # << >>
         /\ out[Len(out)] = FormatError(transport_error)
         /\ \A i \in 1..(Len(out) - 1) : ~IsErrorFragment(out[i])
    /\ transport_error = EmptyText =>
         \A i \in 1..Len(out) : ~IsErrorFragment(out[i])

\* The transport failed in the middle of a Claude stream, after fragments
\* had been yielded.
C1_Witness ==
  /\ mode = "stream" /\ provider = "claude" /\ pc = "done"
  /\ transport_error # EmptyText
  /\ Len(events) >= 2
  /\ Len(out) >= 3
  /\ IsErrorFragment(out[Len(out)])

\* C2: for a thinking block followed by an answer block, the fragments hold
\* exactly one thinking header, before every thinking delta, and exactly one
\* answer header, after the thinking fragments and before the first answer
\* delta.
C2_OneHeaderEach ==
  (mode = "stream" /\ provider = "claude" /\ ThinkingThenAnswer(events)) =>
    LET th == Indices(out, {ThinkingHeader})
        ah == Indices(out, {ResponseHeader})
        td == Indices(out, ThinkingFragments)
        ad == Indices(out, AnswerFragments)
    IN /\ Cardinality(th) = 1
       /\ Cardinality(ah) = 1
       /\ \A h \in th : \A i \in td : h < i
       /\ \A h \in ah : /\ \A i \in th \cup td : i < h
                        /\ \A i \in ad : h < i

\* C3: once message_stop has been received, no further fragment is emitted,
\* although the transport could deliver further events.
C3_NothingAfterMessageStop == [][MessageStopSeen => out' = out]_vars

\* message_stop arrived after fragments were yielded and before the stream
\* was exhausted.
C3_Witness ==
  /\ mode = "stream" /\ provider = "claude" /\ pc = "done"
  /\ MessageStopSeen
  /\ out # << >>
  /\ Len(events) < MaxEvents

\* C4: when the stream holds a tool-use block start, a tool-activity fragment
\* naming the tool is emitted, and every text delta after it is still emitted
\* as an answer fragment, in order.
C4_ToolActivitySurfaced ==
  (mode = "stream" /\ provider = "claude") =>
    \A n \in 1..Len(events) :
      IsBlockStart(events[n], "tool_use") =>
        \E i \in 1..Len(out) :
          /\ IsToolActivity(out[i])
          /\ AnswersFrom(out, i + 1) = TextDeltasFrom(events, n + 1)

----------------------------------------------------------------------------
\* Error classes and retry policy the tests expect (test_error_handling.py)

Contains(t, tok) == \E i \in 1..Len(t) : t[i] = tok

\* First match wins: Overloaded, RateLimited, AuthFailure, ToolUnavailable,
\* Generic.
ClassOf(e) ==
  IF Contains(e, "overloaded_error") THEN "Overloaded"
  ELSE IF Contains(e, "rate_limit") THEN "RateLimited"
  ELSE IF Contains(e, "401") \/ Contains(e, "authentication") THEN "AuthFailure"
  ELSE IF Contains(e, "web_search") THEN "ToolUnavailable"
  ELSE "Generic"

Retryable(e) == ClassOf(e) \in {"Overloaded", "RateLimited"}

\* The prefix by which a final message names its class; "Error:" is the
\* prefix of f"Error: {e}".
PrefixOf(class) ==
  CASE class = "Overloaded"      -> "**API Overloaded**"
    [] class = "RateLimited"     -> "**Rate Limited**"
    [] class = "AuthFailure"     -> "**Authentication Error**"
    [] class = "ToolUnavailable" -> "**Web Search Error**"
    [] OTHER                     -> "Error:"

\* The class a final message reports.
MessageClass(m) ==
  CHOOSE c \in {"Overloaded", "RateLimited", "AuthFailure", "ToolUnavailable",
                "Generic"} :
    IF \E d \in {"Overloaded", "RateLimited", "AuthFailure", "ToolUnavailable"} :
         Contains(m, PrefixOf(d))
    THEN Contains(m, PrefixOf(c)) /\ c # "Generic"
    ELSE c = "Generic"

\* The script fails k times with a retryable error and then succeeds.
FailsThenSucceeds(k) ==
  /\ Len(script) = k + 1
  /\ \A i \in 1..k : ~script[i].ok /\ Retryable(script[i].err)
  /\ script[k + 1].ok

\* Every invocation fails with an Overloaded-class error.
AlwaysOverloaded ==
  /\ Len(script) >= MaxRetries + 1
  /\ \A i \in 1..Len(script) : ~script[i].ok /\ ClassOf(script[i].err) = "Overloaded"

RECURSIVE Pow2(_)
Pow2(n) == IF n = 0 THEN 1 ELSE 2 * Pow2(n - 1)

BlockingDone == mode = "response" /\ provider = "claude" /\ pc = "done"
StreamingDone == mode = "stream" /\ provider = "claude" /\ pc = "done"

----------------------------------------------------------------------------
\* Properties of the error handling

\* C5: if the transport fails with a retryable (Overloaded or RateLimited)
\* error on its first k invocations, k in 0..3, and succeeds on invocation
\* k+1, create_response returns the success value after exactly k+1
\* invocations.
C5_RetryUntilSuccess ==
  \A k \in 0..MaxRetries :
    (BlockingDone /\ FailsThenSucceeds(k)) =>
      /\ calls = k + 1
      /\ result = NormalizeResponse(script[k + 1].content)

\* C6: when every attempt fails with an Overloaded error, the transport is
\* invoked exactly 4 times and the request ends with the final API-Overloaded
\* message, on the blocking and on the streaming path.
C6_RetriesExhausted ==
  /\ (BlockingDone /\ AlwaysOverloaded) =>
       /\ calls = MaxRetries + 1
       /\ Contains(result, PrefixOf("Overloaded"))
  /\ (StreamingDone /\ AlwaysOverloaded) =>
       /\ calls = MaxRetries + 1
       /\ out # << >>
       /\ Contains(out[Len(out)], PrefixOf("Overloaded"))

\* C7: when the first attempt fails with an AuthFailure, ToolUnavailable or
\* Generic error, the transport is invoked exactly once and the returned
\* text starts with that class's own prefix (for Generic, followed by the
\* error text).
C7_NoRetryDistinctPrefix ==
  (BlockingDone /\ ~script[1].ok /\ ~Retryable(script[1].err)) =>
    LET class == ClassOf(script[1].err) IN
    /\ calls = 1
    /\ Contains(result, PrefixOf(class))
    /\ class = "Generic" => result = <<PrefixOf(class)>> \o script[1].err

\* C8: the class reported for a failed request is the first class, in the
\* order Overloaded, RateLimited, AuthFailure, ToolUnavailable, Generic,
\* whose pattern the error text matches.
C8_FirstMatchWins ==
  (BlockingDone /\ transport_error # EmptyText /\ ~script[calls].ok) =>
    MessageClass(result) = ClassOf(script[calls].err)

\* C9: the wait before the n-th retry is 2^(n-1) units, so a request that
\* fails k times with a retryable error and then succeeds has waited
\* 1 + 2 + ... + 2^(k-1) units.
C9_ExponentialBackoff ==
  \A k \in 1..MaxRetries :
    (BlockingDone /\ FailsThenSucceeds(k)) => waited >= Pow2(k) - 1

----------------------------------------------------------------------------
\* Properties of the translator

\* The text a content carries: the string itself, or the texts of the
\* strings and text blocks of a list, in order.
RECURSIVE BlocksText(_)
BlocksText(bs) ==
  IF bs = << >> THEN EmptyText
  ELSE LET b == Head(bs) IN
       (IF b.kind = "str" \/ (b.kind = "dict" /\ b.type = "text")
        THEN b.text ELSE EmptyText) \o BlocksText(Tail(bs))

TextOf(c) == IF c.kind = "list" THEN BlocksText(c.blocks) ELSE c.text

\* The system texts of a message list, each followed by a blank line.
RECURSIVE SystemTexts(_)
SystemTexts(ms) ==
  IF ms = << >> THEN EmptyText
  ELSE (IF Head(ms).role = "system"
        THEN TextOf(Head(ms).content) \o <<NL, NL>> ELSE EmptyText)
       \o SystemTexts(Tail(ms))

HasRole(ms, r) == \E i \in 1..Len(ms) : ms[i].role = r
FirstWithRole(ms, r) ==
  ms[CHOOSE i \in 1..Len(ms) : ms[i].role = r /\ \A j \in 1..(i - 1) : ms[j].role # r]

\* C10: for a message list with at least one System and one User message,
\* the translated list has no System entry and the text of its first User
\* message is the system texts (each followed by a blank line) followed by
\* the original text of the first User message.
C10_SystemFoldedIntoFirstUser ==
  (mode = "convert" /\ pc = "done"
   /\ HasRole(messages, "system") /\ HasRole(messages, "user")) =>
    /\ ~HasRole(claude_messages, "system")
    /\ HasRole(claude_messages, "user")
    /\ TextOf(FirstWithRole(claude_messages, "user").content)
         = SystemTexts(messages) \o TextOf(FirstWithRole(messages, "user").content)

ConvertDone == mode = "convert" /\ pc = "done"

\* A content of the message data model: a string, or a list whose elements
\* are strings and blocks.
WellFormed(c) ==
  \/ c.kind = "str"
  \/ /\ c.kind = "list"
     /\ \A j \in 1..Len(c.blocks) : c.blocks[j].kind \in {"str", "dict"}

\* fc carries c: the same string, or the same blocks in the same order (a
\* string element of a list travels as the text block of that string).
SameContent(c, fc) ==
  IF c.kind = "str" THEN fc = c
  ELSE /\ fc.kind = "list"
       /\ Len(fc.blocks) = Len(c.blocks)
       /\ \A j \in 1..Len(c.blocks) :
            fc.blocks[j] = IF c.blocks[j].kind = "dict" THEN c.blocks[j]
                           ELSE TextBlock(c.blocks[j].text)

IsFileRef(b) == b.kind = "dict" /\ b.type \in {"document", "image", "container_upload"}
RECURSIVE FileRefs(_)
FileRefs(ms) ==
  IF ms = << >> THEN << >>
  ELSE LET c == Head(ms).content
       IN (IF Head(ms).role # "system" /\ c.kind = "list"
           THEN SelectSeq(c.blocks, IsFileRef) ELSE << >>)
          \o FileRefs(Tail(ms))

NoFilename(refs) ==
  \A i \in 1..Len(refs) : refs[i].file_id # "none" /\ refs[i].filename = "none"

\* Every block list of the messages came from prepare_message_content.
AllPrepared(ms) ==
  \A i \in 1..Len(ms) :
    (ms[i].role # "system" /\ ms[i].content.kind = "list") =>
      ms[i].content \in PreparedContents

C13_NothingDropped ==
  (ConvertDone /\ ~HasRole(messages, "system")) =>
    /\ Len(claude_messages) = Len(messages)
    /\ \A i \in 1..Len(messages) :
         LET c == messages[i].content
             fc == claude_messages[i].content
         IN /\ c.kind = "other" => TextOf(fc) = c.text
            /\ c.kind = "list" =>
                 /\ Len(fc.blocks) = Len(c.blocks)
                 /\ \A j \in 1..Len(c.blocks) :
                      c.blocks[j].kind = "other" =>
                        fc.blocks[j] = TextBlock(c.blocks[j].text)

----------------------------------------------------------------------------
\* Properties of the registry

\* The calls of one entry point that are in the log.
LogOf(op) == {i \in 1..Len(log) : log[i].op = op}
ReturnedOf(op) == {i \in LogOf(op) : ~log[i].raised}

\* The clients constructed for the cache entry of provider tag p.
ConstructedFor(p) == {k \in 1..Len(constructions) : constructions[k].tag = p}

NonDefaultFailed == {i \in LogOf("get_ai_client") : "claude" \in log[i].failed}

\* C16 as stated: when the construction of a non-default provider fails,
\* get_ai_client does not raise and returns an OpenAI client.
C16_FallbackNeverRaises ==
  mode = "registry" =>
    \A i \in NonDefaultFailed :
      ~log[i].raised /\ log[i].client.class = "OpenAIClient"

\* C16: when the construction of a non-default provider fails, get_ai_client
\* returns an OpenAI client if the OpenAI client can be constructed, and
\* raises if that construction fails too.
C16_FallbackUnlessBaselineFails ==
  mode = "registry" =>
    \A i \in NonDefaultFailed :
      /\ log[i].raised <=> ~ConstructorOk("OpenAIClient", api_keys)
      /\ ~log[i].raised => log[i].client.class = "OpenAIClient"

\* The Claude key is missing, the OpenAI key is set, and a Claude model was
\* asked for.
C16_Witness ==
  /\ mode = "registry"
  /\ \E i \in NonDefaultFailed :
       /\ ~log[i].raised
       /\ log[i].model = "claude-sonnet-4-20250514"
       /\ log[i].client.class = "OpenAIClient"

C18_ListingLeavesCacheAlone ==
  mode = "registry" =>
    \A i \in LogOf("get_available_models") : log[i].after = log[i].before

\* C18: get_available_models keeps every entry the cache had, and adds an
\* entry of the provider's own class for every uncached provider whose
\* construction succeeds.
C18_ListingFillsCache ==
  mode = "registry" =>
    \A i \in LogOf("get_available_models") : \A p \in Providers :
      IF Cached(log[i].before, p) THEN log[i].after[p] = log[i].before[p]
      ELSE IF ConstructorOk(ClientClass(p), api_keys)
           THEN log[i].after[p].class = ClientClass(p)
           ELSE log[i].after[p] = NoClient

\* A listing on an empty cache has cached a client.
C18_Witness ==
  /\ mode = "registry"
  /\ \E i \in LogOf("get_available_models") :
       /\ \A p \in Providers : ~Cached(log[i].before, p)
       /\ \E p \in Providers : Cached(log[i].after, p)

\* C19: when two threads use the same uncached provider at the same time,
\* its client is constructed at most once and both callers get the same
\* instance.
C19_ConstructedOnceUnderRace ==
  mode = "registry" =>
    /\ \A p \in Providers : Cardinality(ConstructedFor(p)) <= 1
    /\ \A i, j \in ReturnedOf("get_ai_client") :
         ProviderOf(log[i].model) = ProviderOf(log[j].model) =>
           log[i].client = log[j].client

----------------------------------------------------------------------------
\* The blocking path against the streaming path

\* The events the provider streams for a response content: each block is
\* started, delivered in one delta (a tool-use block has none) and stopped.
RECURSIVE BlockEvents(_)
BlockEvents(bs) ==
  IF bs = << >> THEN << >>
  ELSE LET b == Head(bs)
           delta == IF b.type = "thinking"
                    THEN <<Event("content_block_delta", "none", b.thinking, EmptyText)>>
                    ELSE IF b.type = "text"
                    THEN <<Event("content_block_delta", "none", EmptyText, b.text)>>
                    ELSE << >>
       IN <<Event("content_block_start", b.type, EmptyText, EmptyText)>>
          \o delta
          \o <<Event("content_block_stop", "none", EmptyText, EmptyText)>>
          \o BlockEvents(Tail(bs))

StreamOf(content) ==
  <<Event("message_start", "none", EmptyText, EmptyText)>>
  \o BlockEvents(content)
  \o <<Event("message_stop", "none", EmptyText, EmptyText)>>

\* The fragments create_stream yields for a sequence of events.
RECURSIVE StreamFragments(_, _, _, _)
StreamFragments(evs, tc, xc, ct) ==
  IF evs = << >> THEN << >>
  ELSE LET d == DecodeEvent(Head(evs), tc, xc, ct) IN
       d.frags \o (IF d.stop THEN << >>
                   ELSE StreamFragments(Tail(evs), d.thinking_content,
                                        d.text_content, d.current_content_type))

\* "".join(fragments)
RECURSIVE Concat(_)
Concat(frags) ==
  IF frags = << >> THEN EmptyText ELSE Head(frags) \o Concat(Tail(frags))

\* C20: the string create_response returns for a response content is the
\* concatenation, in order, of the fragments create_stream yields when the
\* same content is streamed.
C20_BlockingEqualsStreamed ==
  (BlockingDone /\ calls > 0 /\ OutcomeAt(calls).ok) =>
    result = Concat(StreamFragments(StreamOf(OutcomeAt(calls).content),
                                    EmptyText, EmptyText, "none"))

----------------------------------------------------------------------------
\* Frame of the request paths

\* C21: create_stream and create_response never modify the caller's message
\* list: no step of a call, on success or on error, changes the length of
\* the list or the role or content of a message, also when system messages
\* are folded into the first user message.
C21_CallerMessagesUntouched == [][messages' = messages]_vars

\* A call has folded the system text into its own first user message and has
\* ended; the caller's first user message is still without it.
C21_Witness ==
  /\ mode \in {"stream", "response"} /\ provider = "claude" /\ pc = "done"
  /\ HasRole(messages, "system")
  /\ claude_messages # << >>
  /\ claude_messages[1].content # FirstWithRole(messages, "user").content
  /\ TextOf(claude_messages[1].content)
       = SystemTexts(messages) \o TextOf(FirstWithRole(messages, "user").content)

\* What OpenAIClient does with the call when no option is passed: the
\* request it sends, and the fragments or the string it hands back for the
\* outcomes of the transport.
RECURSIVE ChunkTexts(_)
ChunkTexts(evs) ==
  IF evs = << >> THEN << >>
  ELSE (IF Head(evs).text # EmptyText THEN <<Head(evs).text>> ELSE << >>)
       \o ChunkTexts(Tail(evs))

PlainOut ==
  ChunkTexts(events)
  \o (IF transport_error # EmptyText THEN <<FormatError(transport_error)>> ELSE << >>)

PlainResult ==
  IF OutcomeAt(1).ok THEN OutcomeAt(1).content[1].text
  ELSE FormatError(OutcomeAt(1).err)

\* C22: whatever thinking_enabled, thinking_budget or tools the caller
\* passes to OpenAIClient, the call does not fail, and the transport request
\* and the result are those of the call without options.
C22_OpenAIIgnoresOptions ==
  (provider = "openai" /\ mode \in {"stream", "response"} /\ pc # "start") =>
    /\ ~raised
    /\ request = OpenAIRequest(messages, mode = "stream")
    /\ mode = "stream" => out = PlainOut
    /\ (mode = "response" /\ pc = "done") => result = PlainResult

----------------------------------------------------------------------------
\* The web search tool descriptor

\* The optional keys a descriptor must have: those of the parameters given a
\* value that is not empty.
ExpectedToolKeys ==
  {"type", "name"}
  \cup (IF options.max_uses.given THEN {"max_uses"} ELSE {})
  \cup {k \in {"allowed_domains", "blocked_domains"} :
          options[k].given /\ options[k].value # << >>}
  \cup (IF options.user_location.given /\ options.user_location.value # ""
        THEN {"user_location"} ELSE {})

\* C23: create_web_search_tool returns a descriptor that has the type and
\* name fields and has max_uses, allowed_domains, blocked_domains and
\* user_location exactly when the parameter was given a non-empty value.
C23_ToolDescriptorKeys ==
  (mode = "web_search_tool" /\ pc = "done") =>
    /\ ~raised
    /\ DOMAIN result = ExpectedToolKeys

----------------------------------------------------------------------------
\* More properties of the registry

\* get_ai_client calls for the default provider (known or unknown model).
BaselineCalls == {i \in LogOf("get_ai_client") : ProviderOf(log[i].model) = "openai"}

\* C24: when the OpenAI client cannot be constructed, get_ai_client raises
\* for every model of the default provider, the cache gets no entry for the
\* provider, and a later call attempts the construction again.
C24_BaselineFailurePropagates ==
  (mode = "registry" /\ "openai" \notin api_keys) =>
    /\ client_instances["openai"] = NoClient
    /\ \A i \in BaselineCalls :
         /\ log[i].raised
         /\ "openai" \in log[i].failed
         /\ log[i].after["openai"] = NoClient

\* Two calls for the default provider have failed one after the other, each
\* in its own construction attempt.
C24_Witness ==
  /\ mode = "registry" /\ "openai" \notin api_keys
  /\ Len(log) = 2
  /\ log[1].op = "get_ai_client" /\ log[1].model = "gpt-4o" /\ log[1].raised
  /\ log[2].op = "get_ai_client" /\ log[2].model = "gpt-4o" /\ log[2].raised
  /\ log[2].failed = {"openai"}
  /\ client_instances["openai"] = NoClient

\* C29: the client cached under a provider tag is an instance of that
\* provider's own class, and a listing reports under each provider's name
\* nothing but that provider's models.
C29_CachedClientOfOwnClass ==
  mode = "registry" =>
    /\ \A p \in Providers :
         Cached(client_instances, p) => client_instances[p].class = ClientClass(p)
    /\ \A i \in ReturnedOf("get_available_models") : \A p \in Providers :
         \A k \in 1..Len(log[i].models[p]) :
           ModelProviders(log[i].models[p][k]) = p

----------------------------------------------------------------------------
\* Saving a conversation

\* The first user message has a block list of a text block and file
\* references.
FirstUserHasBlocks(ms) ==
  /\ HasRole(ms, "user")
  /\ FirstWithRole(ms, "user").content \in PreparedContents

\* C25: auto_save_chat on a conversation whose first user message has a
\* block list as content does not raise, and returns a filename unless the
\* write itself failed.
C25_AutoSaveWithBlocks ==
  (mode = "auto_save" /\ pc = "done" /\ FirstUserHasBlocks(messages)) =>
    /\ ~raised
    /\ returned.error = "none" => returned.value # NoFile

----------------------------------------------------------------------------
\* Uploading a file

\* C26: upload_file removes the temporary file it created on every exit
\* path: after the call returns, no temporary file of upload_file exists.
C26_NoTempFileLeft == mode = "upload" => files = {}

\* C27: prepare_message_content returns the prompt string when no file is
\* pending, else the text block followed by the pending references in attach
\* order without their filename, and leaves no file pending; so the
\* references of the messages built so far, followed by the pending ones, are
\* the attached references, each one once and in order.
C27_EachReferenceInOneMessage ==
  [][LET Stripped(refs) ==
           [i \in 1..Len(refs) |-> [refs[i] EXCEPT !.filename = "none"]]
         RefsOf(c) == IF c.kind = "list" THEN Tail(c.blocks) ELSE << >>
         Included(contents) ==
           Concat([i \in 1..Len(contents) |-> RefsOf(contents[i])])
         content == prepared'[Len(prepared')]
     IN mode = "upload" =>
          /\ Included(prepared') \o Stripped(pending_files') = Stripped(attached')
          /\ prepared' # prepared =>
               /\ pending_files' = << >>
               /\ \E prompt \in {<<"p">>, <<"q">>} :
                    IF pending_files = << >>
                      THEN content = Str(prompt)
                      ELSE content = List(<<TextBlock(prompt)>>
                                          \o Stripped(pending_files))]_vars

\* Two files were attached and went into one message; none is pending.
C27_Witness ==
  /\ mode = "upload"
  /\ Len(attached) = 2 /\ attached[1] # attached[2]
  /\ Len(prepared) = 1 /\ prepared[1].kind = "list"
  /\ Len(prepared[1].blocks) = 3
  /\ pending_files = << >>

----------------------------------------------------------------------------
\* The reply kept in the conversation history

\* C28: the assistant reply appended to the history after a streamed request
\* is the concatenation of the answer fragments of that request only:
\* thinking headers, thinking deltas, separators and tool-activity fragments
\* are not part of it.
C28_StoredReplyIsAnswerOnly ==
  StreamingDone =>
    AssistantReply(out) = Msg("assistant", Str(Concat(AnswersFrom(out, 1))))

----------------------------------------------------------------------------
\* The decorations of the Claude stream

\* C30: for every event sequence given to ClaudeClient.create_stream the
\* answer header is emitted at most once per call and only immediately
\* before a text-delta fragment, and the thinking separator is emitted
\* exactly once for each thinking block that was started and stopped and
\* never for another block.
C30_HeaderOnceSeparatorPerBlock ==
  (mode = "stream" /\ provider = "claude") =>
    LET headers == Indices(out, {ResponseHeader})
        separators == Indices(out, {ThinkingSeparator})
        BlockLevel(k) ==
          events[k].type \in {"content_block_start", "content_block_stop"}
        closed ==
          {j \in 1..Len(events) :
             /\ events[j].type = "content_block_stop"
             /\ \E i \in 1..(j - 1) :
                  /\ IsBlockStart(events[i], "thinking")
                  /\ \A k \in (i + 1)..(j - 1) : ~BlockLevel(k)}
    IN /\ Cardinality(headers) <= 1
       /\ \A i \in headers : i < Len(out) /\ out[i + 1] \in AnswerFragments
       /\ Cardinality(separators) = Cardinality(closed)

====
